---- MODULE Spec2Model ----
(***************************************************************************)
(* Student Records Store (Assignment_2/Assignment_2.py).                   *)
(*                                                                         *)
(* The persisted state is one SQLite file with one table                   *)
(*   students(id INTEGER PRIMARY KEY, name, grade, email).                 *)
(* Every store function opens its own connection, runs one statement,      *)
(* commits and closes.  Two specifications are given:                      *)
(*   Spec      the store functions called directly, in any order;          *)
(*   SpecMenu  the interactive loop of main(), one step per prompt.        *)
(* Text is modelled as a sequence of one-character strings so that         *)
(* str.strip(), str.lower() and int() are computed, not assumed.  A Python  *)
(* int is unbounded: it is modelled by its decimal notation (sign, digits  *)
(* without leading zeros), a rowid by an integer.                          *)
(***************************************************************************)
EXTENDS Integers, Sequences, FiniteSets, TLC

VARIABLES schema,      \* columns of table students in the file; <<>> = no table
          rows,        \* the table's rows, in rowid (b-tree) order
          openConns,   \* connections opened by this process and not closed
          last,        \* the store function called by the last step, and its outcome
          assigned,    \* history: ids given to the rows inserted so far
          pc,          \* position of main(); "api" when functions are called directly
          student_id,  \* main()'s local student_id between two prompts
          io           \* what the last step of main() read and printed

vars == <<schema, rows, openConns, last, assigned, pc, student_id, io>>

(***************************************************************************)
(* Bounds.                                                                 *)
(***************************************************************************)
MaxCreates == 3     \* successful INSERTs in one behaviour
MaxLeaks == 1       \* connections left open at a time

(***************************************************************************)
(* Inputs.                                                                 *)
(***************************************************************************)
Ann == <<"A", "n", "n">>
Ben == <<"B", "e", "n">>
AnnMail == <<"a", "@", "x">>
BenMail == <<"b", "@", "x">>

\* (name, grade, email) argument triples given to add_student/update_student
Students == {<<Ann, <<"A">>, AnnMail>>, <<Ben, <<"B">>, BenMail>>}

\* raw lines typed at the three field prompts of main()
RawStudents == Students \cup {<<<<" ">> \o Ann, <<"A", " ">>, AnnMail \o <<" ", " ">>>>}

\* lines typed at an id prompt
IdLines == {<<"1">>, <<"2">>, <<" ", "2", " ">>, <<"+", "1">>, <<"0", "2">>,
            <<"9">>, <<"1", "_", "0">>,
            <<"0">>, <<"-", "0">>, <<"-", "1">>,
            <<>>, <<" ">>, <<"a">>, <<"1", "a">>, <<"-">>, <<"+", "-", "1">>,
            <<"-", " ", "1">>, <<"1", " ", "2">>, <<"_", "1">>, <<"1", "_">>,
            <<"1", "_", "_", "0">>, <<"1", ".", "0">>,
            <<"9", "2", "2", "3", "3", "7", "2", "0", "3", "6",
              "8", "5", "4", "7", "7", "5", "8", "0", "7">>,
            <<"9", "9", "9", "9", "9", "9", "9", "9", "9", "9",
              "9", "9", "9", "9", "9", "9", "9", "9", "9", "9">>,
            <<"-", "9", "2", "2", "3", "3", "7", "2", "0", "3", "6",
              "8", "5", "4", "7", "7", "5", "8", "0", "8">>,
            <<"-", "9", "2", "2", "3", "3", "7", "2", "0", "3", "6",
              "8", "5", "4", "7", "7", "5", "8", "0", "9">>}

\* lines typed at the y/n prompt
AnswerLines == {<<"y">>, <<"Y">>, <<" ", "y">>, <<"Y", " ">>,
                <<"n">>, <<"N">>, <<>>, <<" ">>, <<"y", "e", "s">>, <<"y", "y">>,
                <<"y", " ", "y">>}

ChoiceLines == {<<"1">>, <<"2">>, <<"3">>, <<"4">>, <<"5">>, <<"9">>,
                <<" ", "3">>, <<"4", " ">>, <<>>}

(***************************************************************************)
(* Python text functions used by main().                                   *)
(***************************************************************************)
IsSpace(c) == c = " "

RECURSIVE strip(_)
strip(s) ==
    IF s = <<>> THEN s
    ELSE IF IsSpace(Head(s)) THEN strip(Tail(s))
    ELSE IF IsSpace(s[Len(s)]) THEN strip(SubSeq(s, 1, Len(s) - 1))
    ELSE s

LowerChar(c) == IF c = "Y" THEN "y" ELSE IF c = "N" THEN "n" ELSE c

lower(s) == [i \in 1..Len(s) |-> LowerChar(s[i])]

Digits == {"0", "1", "2", "3", "4", "5", "6", "7", "8", "9"}

DigitValue(c) ==
    CASE c = "0" -> 0 [] c = "1" -> 1 [] c = "2" -> 2 [] c = "3" -> 3
      [] c = "4" -> 4 [] c = "5" -> 5 [] c = "6" -> 6 [] c = "7" -> 7
      [] c = "8" -> 8 [] c = "9" -> 9

\* the literal without its sign
Unsigned(s) == IF s # <<>> /\ Head(s) \in {"+", "-"} THEN Tail(s) ELSE s

\* faulty variant: no text raises ValueError
int_accepts_all(s) == TRUE

\* int(s) accepts: optional sign, decimal digits, single underscores between digits
int_accepts(s) ==
    LET b == Unsigned(s) IN
    /\ b # <<>>
    /\ \A i \in 1..Len(b) : b[i] \in Digits \cup {"_"}
    /\ b[1] \in Digits
    /\ b[Len(b)] \in Digits
    /\ \A i \in 1..(Len(b) - 1) : ~(b[i] = "_" /\ b[i + 1] = "_")

\* the digits of a literal, without the underscores between them
OnlyDigits(b) == SelectSeq(b, LAMBDA c : c \in Digits)

RECURSIVE NoLeadingZeros(_)
NoLeadingZeros(d) ==
    IF Len(d) > 1 /\ Head(d) = "0" THEN NoLeadingZeros(Tail(d)) ELSE d

Zero == <<"0">>

\* the Python int that int(s) gives when it does not raise ValueError, in
\* decimal notation: int("-0") is 0, int("+007") is 7, int("1_0") is 10
int_value(s) ==
    LET d == NoLeadingZeros(OnlyDigits(Unsigned(s)))
    IN IF s # <<>> /\ Head(s) = "-" /\ d # Zero THEN <<"-">> \o d ELSE d

DigitChar(n) ==
    CASE n = 0 -> "0" [] n = 1 -> "1" [] n = 2 -> "2" [] n = 3 -> "3"
      [] n = 4 -> "4" [] n = 5 -> "5" [] n = 6 -> "6" [] n = 7 -> "7"
      [] n = 8 -> "8" [] n = 9 -> "9"

\* the decimal notation of an integer
RECURSIVE Decimal(_)
Decimal(n) ==
    IF n < 0 THEN <<"-">> \o Decimal(0 - n)
    ELSE IF n < 10 THEN <<DigitChar(n)>>
    ELSE Decimal(n \div 10) \o <<DigitChar(n % 10)>>

\* the largest and the smallest SQLite INTEGER: 2^63 - 1 and -2^63
Int64Max == <<"9", "2", "2", "3", "3", "7", "2", "0", "3", "6",
              "8", "5", "4", "7", "7", "5", "8", "0", "7">>
Int64Min == <<"-", "9", "2", "2", "3", "3", "7", "2", "0", "3", "6",
              "8", "5", "4", "7", "7", "5", "8", "0", "8">>

\* a <= b for two digit sequences of the same length: at the first place
\* where they differ, a has the smaller digit
DigitsLE(a, b) ==
    LET differ == {i \in 1..Len(a) : a[i] # b[i]}
    IN \/ differ = {}
       \/ LET first == CHOOSE i \in differ : \A j \in differ : i <= j
          IN DigitValue(a[first]) < DigitValue(b[first])

\* sqlite3 binds a Python int as a signed 64-bit INTEGER and raises
\* OverflowError for an int outside -2^63 .. 2^63 - 1
FitsInt64(n) ==
    IF Head(n) = "-"
    THEN \/ Len(n) < Len(Int64Min)
         \/ Len(n) = Len(Int64Min) /\ DigitsLE(Tail(n), Tail(Int64Min))
    ELSE \/ Len(n) < Len(Int64Max)
         \/ Len(n) = Len(Int64Max) /\ DigitsLE(n, Int64Max)

\* ids passed by a direct caller: around the rowids in use, and 2^63
IdArgs == {Decimal(i) : i \in 0..(MaxCreates + 1)}
             \cup {SubSeq(Int64Max, 1, 18) \o <<"8">>}

\* faulty variant: everything but n confirms
confirmed_raw(answer) == strip(answer) # <<"n">>

\* confirm == "y" with confirm = input(...).strip().lower()
confirmed(answer) == lower(strip(answer)) = <<"y">>

(***************************************************************************)
(* SQLite: the statements the store functions execute.                     *)
(***************************************************************************)
NoTable == <<>>

StudentsColumns ==
    << <<"id", "INTEGER PRIMARY KEY">>, <<"name", "TEXT NOT NULL">>,
       <<"grade", "TEXT NOT NULL">>, <<"email", "TEXT NOT NULL">> >>

Ids(rs) == {rs[i].id : i \in 1..Len(rs)}

MaxOf(S) == CHOOSE m \in S : \A x \in S : x <= m

\* rowid given to a row inserted without an id: one more than the largest
\* rowid in the table (INTEGER PRIMARY KEY without AUTOINCREMENT)
NextRowid(rs) == IF rs = <<>> THEN 1 ELSE MaxOf(Ids(rs)) + 1

\* faulty variant: the table is created anew on every call
CreateTableAlways(sch, rs) == [schema |-> StudentsColumns, rows |-> <<>>]

\* CREATE TABLE IF NOT EXISTS students (...)
CreateTableIfNotExists(sch, rs) ==
    IF sch = NoTable THEN [schema |-> StudentsColumns, rows |-> <<>>]
    ELSE [schema |-> sch, rows |-> rs]

\* faulty variant: the new row replaces the table's rows
InsertRowReplacing(rs, name, grade, email) ==
    <<[id |-> NextRowid(rs), name |-> name, grade |-> grade, email |-> email]>>

\* INSERT INTO students (name, grade, email) VALUES (?, ?, ?)
InsertRow(rs, name, grade, email) ==
    Append(rs, [id |-> NextRowid(rs), name |-> name, grade |-> grade, email |-> email])

\* faulty variant: the rows come in descending rowid order
SelectAllReversed(rs) ==
    [i \in 1..Len(rs) |->
        LET r == rs[Len(rs) + 1 - i] IN <<r.id, r.name, r.grade, r.email>>]

\* SELECT id, name, grade, email FROM students  (table scan: rowid order)
SelectAll(rs) ==
    [i \in 1..Len(rs) |-> <<rs[i].id, rs[i].name, rs[i].grade, rs[i].email>>]

\* faulty variant: email is not among the columns set
UpdateRowsKeepEmail(rs, id, name, grade, email) ==
    [i \in 1..Len(rs) |->
        IF Decimal(rs[i].id) = id
        THEN [id |-> rs[i].id, name |-> name, grade |-> grade, email |-> rs[i].email]
        ELSE rs[i]]

\* faulty variant: the WHERE clause is missing
UpdateRowsNoWhere(rs, id, name, grade, email) ==
    [i \in 1..Len(rs) |->
        [id |-> rs[i].id, name |-> name, grade |-> grade, email |-> email]]

\* UPDATE students SET name = ?, grade = ?, email = ? WHERE id = ?
\* (the bound int equals a rowid when both are the same number)
UpdateRows(rs, id, name, grade, email) ==
    [i \in 1..Len(rs) |->
        IF Decimal(rs[i].id) = id
        THEN [id |-> rs[i].id, name |-> name, grade |-> grade, email |-> email]
        ELSE rs[i]]

\* faulty variant: WHERE id >= ?
DeleteRowsUpTo(rs, id) ==
    SelectSeq(rs, LAMBDA r : \A k \in 1..r.id : Decimal(k) # id)

\* DELETE FROM students WHERE id = ?
DeleteRows(rs, id) == SelectSeq(rs, LAMBDA r : Decimal(r.id) # id)

(***************************************************************************)
(* One call of a store function: connect, execute, commit, close.          *)
(* There is no try/finally around the statement: when execute() or         *)
(* commit() raises, the function is left before database.close().          *)
(*                                                                         *)
(* The storage faults a call can meet, as the code meets them:             *)
(*   connect  sqlite3.connect cannot open students.db: OperationalError    *)
(*   notadb   students.db is not a database file: execute() raises         *)
(*            DatabaseError when it prepares the statement                 *)
(*   execute  students.db cannot be read (another connection holds it      *)
(*            exclusively): execute() raises OperationalError when it      *)
(*            prepares the statement, before the table is looked up and    *)
(*            before any parameter is bound                                *)
(*   write    students.db cannot be written (another connection holds the  *)
(*            write lock): execute() raises OperationalError when a        *)
(*            statement that writes is run, after it is prepared and its   *)
(*            parameters are bound; statements that only read succeed      *)
(*   commit   commit() raises OperationalError                             *)
(***************************************************************************)
Faults == {"none", "connect", "notadb", "execute", "write", "commit"}

\* every store function ends without a return statement
None == [kind |-> "None"]
NoReturn == [kind |-> "raised"]

NoCall == [op |-> "none", args |-> <<>>, fault |-> "none", raised |-> "none",
           at |-> "none", conn |-> "never", ret |-> NoReturn, rowcount |-> -1,
           out |-> <<>>]

\* what execute() raises, in the order it works: the statement is prepared
\* (the file is read: it is no database, or it is locked; then the statement
\* names a table the file does not have), then its parameters are bound (an
\* int that is no SQLite INTEGER), then it is run (a write needs the write
\* lock)
ExecuteRaises(fault, needsTable, binds, writes) ==
    IF fault = "notadb" THEN "DatabaseError"
    ELSE IF fault = "execute" THEN "OperationalError"
    ELSE IF needsTable /\ schema = NoTable THEN "OperationalError"
    ELSE IF ~binds THEN "OverflowError"
    ELSE IF fault = "write" /\ writes THEN "OperationalError"
    ELSE "none"

\* where the call raises: sqlite3.connect, execute or commit
FailsAt(fault, needsTable, binds, writes) ==
    IF fault = "connect" THEN "connect"
    ELSE IF ExecuteRaises(fault, needsTable, binds, writes) # "none" THEN "execute"
    ELSE IF fault = "commit" THEN "commit"
    ELSE "none"

\* the exception the call is left with
Raised(fault, needsTable, binds, writes) ==
    LET at == FailsAt(fault, needsTable, binds, writes)
    IN IF at = "none" THEN "none"
       ELSE IF at = "execute" THEN ExecuteRaises(fault, needsTable, binds, writes)
       ELSE "OperationalError"

\* the connection the call opened, when the call is left
ConnAfter(at) ==
    IF at = "connect" THEN "never"
    ELSE IF at = "none" THEN "closed"
    ELSE "open"

\* rows matched by WHERE id = ?
Matching(rs, id) == Cardinality({i \in 1..Len(rs) : Decimal(rs[i].id) = id})

\* the record of one call: what was passed, the storage fault met, where the
\* call raised, the state of its connection, what it returned and printed;
\* rowcount is the statement's cursor.rowcount, which the code never reads
Called(op, args, fault, at, exc, rowcount, out) ==
    [op |-> op, args |-> args, fault |-> fault,
     raised |-> exc,
     at |-> at, conn |-> ConnAfter(at),
     ret |-> IF at = "none" THEN None ELSE NoReturn,
     rowcount |-> IF at \in {"none", "commit"} THEN rowcount ELSE -1,
     out |-> IF at = "none" THEN out ELSE <<>>]

connect_db(at) ==
    /\ ConnAfter(at) = "open" => openConns < MaxLeaks
    /\ openConns' = IF ConnAfter(at) = "open" THEN openConns + 1 ELSE openConns

\* CREATE TABLE runs outside a transaction: it is durable when execute()
\* returns, and the commit() after it has nothing to commit; with the
\* table there already the statement writes nothing
setup_table(fault) ==
    LET writes == schema = NoTable
        at == FailsAt(fault, FALSE, TRUE, writes)
        exc == Raised(fault, FALSE, TRUE, writes)
        db == CreateTableIfNotExists(schema, rows)
    IN /\ fault \in Faults \ {"commit"}
       /\ connect_db(at)
       /\ schema' = IF at = "none" THEN db.schema ELSE schema
       /\ rows' = IF at = "none" THEN db.rows ELSE rows
       /\ last' = Called("setup_table", <<>>, fault, at, exc, -1, <<>>)
       /\ UNCHANGED assigned

\* an INSERT whose commit() raised stays in the open connection's transaction
\* and is rolled back with it: the file keeps its rows
add_student(name, grade, email, fault) ==
    LET at == FailsAt(fault, TRUE, TRUE, TRUE)
        exc == Raised(fault, TRUE, TRUE, TRUE)
    IN /\ fault \in Faults
       /\ Len(assigned) < MaxCreates
       /\ connect_db(at)
       /\ rows' = IF at = "none" THEN InsertRow(rows, name, grade, email) ELSE rows
       /\ assigned' = IF at = "none" THEN Append(assigned, NextRowid(rows)) ELSE assigned
       /\ last' = Called("add_student", <<name, grade, email>>, fault, at, exc, 1, <<>>)
       /\ UNCHANGED schema

\* prints one line per row; nothing is committed and nothing is returned
view_students_db(fault) ==
    LET at == FailsAt(fault, TRUE, TRUE, FALSE)
        exc == Raised(fault, TRUE, TRUE, FALSE)
    IN /\ fault \in Faults \ {"commit"}
       /\ connect_db(at)
       /\ last' = Called("view_students_db", <<>>, fault, at, exc, -1, SelectAll(rows))
       /\ UNCHANGED <<schema, rows, assigned>>

update_student(id, name, grade, email, fault) ==
    LET binds == FitsInt64(id)
        at == FailsAt(fault, TRUE, binds, TRUE)
        exc == Raised(fault, TRUE, binds, TRUE)
    IN /\ fault \in Faults
       /\ connect_db(at)
       /\ rows' = IF at = "none" THEN UpdateRows(rows, id, name, grade, email) ELSE rows
       /\ last' = Called("update_student", <<id, name, grade, email>>, fault, at, exc,
                        Matching(rows, id), <<>>)
       /\ UNCHANGED <<schema, assigned>>

delete_student(id, fault) ==
    LET binds == FitsInt64(id)
        at == FailsAt(fault, TRUE, binds, TRUE)
        exc == Raised(fault, TRUE, binds, TRUE)
    IN /\ fault \in Faults
       /\ connect_db(at)
       /\ rows' = IF at = "none" THEN DeleteRows(rows, id) ELSE rows
       /\ last' = Called("delete_student", <<id>>, fault, at, exc,
                        Matching(rows, id), <<>>)
       /\ UNCHANGED <<schema, assigned>>

(***************************************************************************)
(* Spec: the store functions called directly by one single-threaded        *)
(* caller, in any order, setup_table included or not.                      *)
(***************************************************************************)
NoIO == [step |-> "none", lines |-> <<>>, asked |-> Zero, msg |-> "none"]

InitStore ==
    /\ schema = NoTable
    /\ rows = <<>>
    /\ openConns = 0
    /\ last = NoCall
    /\ assigned = <<>>
    /\ student_id = Zero
    /\ io = NoIO

Init == InitStore /\ pc = "api"

CallSetupTable ==
    /\ pc = "api"
    /\ \E fault \in Faults : setup_table(fault)
    /\ UNCHANGED <<pc, student_id, io>>

CallAddStudent ==
    /\ pc = "api"
    /\ \E s \in Students, fault \in Faults : add_student(s[1], s[2], s[3], fault)
    /\ UNCHANGED <<pc, student_id, io>>

CallViewStudents ==
    /\ pc = "api"
    /\ \E fault \in Faults : view_students_db(fault)
    /\ UNCHANGED <<pc, student_id, io>>

CallUpdateStudent ==
    /\ pc = "api"
    /\ \E id \in IdArgs, s \in Students, fault \in Faults :
          update_student(id, s[1], s[2], s[3], fault)
    /\ UNCHANGED <<pc, student_id, io>>

CallDeleteStudent ==
    /\ pc = "api"
    /\ \E id \in IdArgs, fault \in Faults : delete_student(id, fault)
    /\ UNCHANGED <<pc, student_id, io>>

\* the process ends (or the interpreter finalises the unreachable Connection
\* objects): the connections left open are closed, uncommitted work is lost
ProcessExit ==
    /\ pc = "api"
    /\ openConns > 0
    /\ openConns' = 0
    /\ last' = NoCall
    /\ UNCHANGED <<schema, rows, assigned, pc, student_id, io>>

Next ==
    \/ CallSetupTable
    \/ CallAddStudent
    \/ CallViewStudents
    \/ CallUpdateStudent
    \/ CallDeleteStudent
    \/ ProcessExit

Spec == Init /\ [][Next]_vars

(***************************************************************************)
(* SpecMenu: main().  One step per prompt; a step models everything main() *)
(* does from one input() to the next.  main() catches ValueError only:     *)
(* sqlite3 errors and OverflowError end the process.                       *)
(***************************************************************************)
InitMenu == InitStore /\ pc = "start"

Step(step, lines, asked, msg) ==
    [step |-> step, lines |-> lines, asked |-> asked, msg |-> msg]

AfterCall(msg) == IF last'.raised = "none" THEN msg ELSE "none"

Resume == IF last'.raised = "none" THEN "menu" ELSE "crashed"

NoStoreCall ==
    /\ last' = NoCall
    /\ UNCHANGED <<schema, rows, openConns, assigned>>

\* main(), line 77
main_setup ==
    /\ pc = "start"
    /\ \E fault \in Faults : setup_table(fault)
    /\ pc' = Resume
    /\ io' = Step("setup", <<>>, Zero, "none")
    /\ UNCHANGED student_id

Branch(choice) ==
    IF choice = <<"1">> THEN "add"
    ELSE IF choice = <<"2">> THEN "view"
    ELSE IF choice = <<"3">> THEN "upd_id"
    ELSE IF choice = <<"4">> THEN "del_id"
    ELSE IF choice = <<"5">> THEN "exited"
    ELSE "menu"

\* print_menu(), user_choice() and the dispatch on choice
user_choice ==
    /\ pc = "menu"
    /\ \E line \in ChoiceLines :
          LET choice == strip(line)
          IN /\ Branch(choice) = "add" => Len(assigned) < MaxCreates
             /\ pc' = Branch(choice)
             /\ io' = Step("choice", <<line>>, Zero,
                           IF Branch(choice) = "exited" THEN "Exiting Program..."
                           ELSE IF Branch(choice) = "menu" THEN "Invalid input, Try again."
                           ELSE "none")
    /\ NoStoreCall
    /\ UNCHANGED student_id

branch_add ==
    /\ pc = "add"
    /\ \E raw \in RawStudents, fault \in Faults :
          /\ add_student(strip(raw[1]), strip(raw[2]), strip(raw[3]), fault)
          /\ io' = Step("add", raw, Zero, AfterCall("Student Added"))
    /\ pc' = Resume
    /\ UNCHANGED student_id

branch_view ==
    /\ pc = "view"
    /\ \E fault \in Faults : view_students_db(fault)
    /\ io' = Step("view", <<>>, Zero, "none")
    /\ pc' = Resume
    /\ UNCHANGED student_id

branch_update_id ==
    /\ pc = "upd_id"
    /\ \E line \in IdLines :
          IF int_accepts(strip(line))
          THEN /\ student_id' = int_value(strip(line))
               /\ pc' = "upd_fields"
               /\ io' = Step("upd_id", <<line>>, Zero, "none")
          ELSE /\ student_id' = student_id
               /\ pc' = "menu"
               /\ io' = Step("upd_id", <<line>>, Zero, "Invalid ID. Must be a number.")
    /\ NoStoreCall

branch_update_fields ==
    /\ pc = "upd_fields"
    /\ \E raw \in RawStudents, fault \in Faults :
          /\ update_student(student_id, strip(raw[1]), strip(raw[2]), strip(raw[3]), fault)
          /\ io' = Step("upd_fields", raw, Zero, AfterCall("Student updated."))
    /\ pc' = Resume
    /\ UNCHANGED student_id

branch_delete_id ==
    /\ pc = "del_id"
    /\ \E line \in IdLines :
          IF int_accepts(strip(line))
          THEN /\ student_id' = int_value(strip(line))
               /\ pc' = "del_confirm"
               /\ io' = Step("del_id", <<line>>, Zero, "none")
          ELSE /\ student_id' = student_id
               /\ pc' = "menu"
               /\ io' = Step("del_id", <<line>>, Zero, "Invalid ID. Must be a number.")
    /\ NoStoreCall

\* the prompt names student_id; the answer is stripped and lowered
branch_delete_confirm ==
    /\ pc = "del_confirm"
    /\ \E answer \in AnswerLines :
          IF confirmed(answer)
          THEN /\ \E fault \in Faults : delete_student(student_id, fault)
               /\ io' = Step("del_confirm", <<answer>>, student_id,
                             AfterCall("Student deleted."))
               /\ pc' = Resume
          ELSE /\ NoStoreCall
               /\ io' = Step("del_confirm", <<answer>>, student_id, "Delete canceled.")
               /\ pc' = "menu"
    /\ UNCHANGED student_id

\* the program is started again on the same students.db
restart ==
    /\ pc \in {"exited", "crashed"}
    /\ pc' = "start"
    /\ openConns' = 0
    /\ last' = NoCall
    /\ io' = NoIO
    /\ student_id' = Zero
    /\ UNCHANGED <<schema, rows, assigned>>

NextMenu ==
    \/ main_setup
    \/ user_choice
    \/ branch_add
    \/ branch_view
    \/ branch_update_id
    \/ branch_update_fields
    \/ branch_delete_id
    \/ branch_delete_confirm
    \/ restart

SpecMenu == InitMenu /\ [][NextMenu]_vars

(***************************************************************************)
(* The properties.  The terms of the specification are defined here on     *)
(* their own, without the operators that model the code.                   *)
(***************************************************************************)
\* a Student Record as ReadAll presents it
Record(r) == <<r.id, r.name, r.grade, r.email>>

Records(rs) == {Record(rs[i]) : i \in 1..Len(rs)}

AscendingIds(v) == \A i, j \in 1..Len(v) : i < j => v[i][1] < v[j][1]

\* the text between the first and the last character that is not a blank
Trimmed(t) ==
    LET solid == {i \in 1..Len(t) : t[i] # " "}
    IN IF solid = {} THEN <<>>
       ELSE SubSeq(t, CHOOSE i \in solid : \A j \in solid : i <= j,
                      CHOOSE i \in solid : \A j \in solid : j <= i)

\* decimal integer text: an optional sign, then digits, where an underscore
\* may stand between two digits
IsIntegerText(t) ==
    LET u == Trimmed(t)
        b == IF u # <<>> /\ u[1] \in {"+", "-"} THEN SubSeq(u, 2, Len(u)) ELSE u
    IN /\ b # <<>>
       /\ \A i \in 1..Len(b) :
             \/ b[i] \in Digits
             \/ /\ b[i] = "_"
                /\ 1 < i
                /\ i < Len(b)
                /\ b[i - 1] \in Digits
                /\ b[i + 1] \in Digits

IsNegativeText(t) == Trimmed(t) # <<>> /\ Trimmed(t)[1] = "-"

IsZeroText(t) ==
    LET u == Trimmed(t) IN \A i \in 1..Len(u) : u[i] \in {"+", "-", "_", "0"}

\* a well-formed positive integer
IsPositiveIntegerText(t) == IsIntegerText(t) /\ ~IsNegativeText(t) /\ ~IsZeroText(t)

\* the ids of the records, as a caller names them
IdNames(rs) == {Decimal(k) : k \in Ids(rs)}

IsPositiveInt(n) == Head(n) # "-" /\ n # Zero

\* n > m for two numbers written with digits, without leading zeros
RECURSIVE Exceeds(_, _)
Exceeds(n, m) ==
    IF Len(n) # Len(m) THEN Len(n) > Len(m)
    ELSE IF n = <<>> THEN FALSE
    ELSE IF Head(n) # Head(m) THEN DigitValue(Head(n)) > DigitValue(Head(m))
    ELSE Exceeds(Tail(n), Tail(m))

\* -2^63 <= n <= 2^63 - 1, for n in decimal notation
InSigned64(n) ==
    \/ Len(n) < Len(Int64Max)
    \/ IF Head(n) = "-" THEN ~Exceeds(Tail(n), Tail(Int64Min))
       ELSE ~Exceeds(n, Int64Max)

AnsweredYes(t) == Trimmed(t) \in {<<"y">>, <<"Y">>}

Succeeded(call, op) == call.op = op /\ call.raised = "none"

\* no storage fault met and the table exists
Healthy(call) == call.fault = "none" /\ schema # NoTable

InvalidIdMsg == "Invalid ID. Must be a number."

(***************************************************************************)
(* C1. The ids assigned by successive Creates are strictly increasing, so  *)
(* no id is assigned twice, whatever was deleted in between.               *)
(***************************************************************************)
C1_IdsStrictlyIncreasing ==
    \A i, j \in 1..Len(assigned) : i < j => assigned[i] < assigned[j]

(***************************************************************************)
(* C2 as stated. Create returns the id k it assigned; right after, ReadAll *)
(* holds exactly one record with id k, which is (k, name, grade, email),   *)
(* and every record present before, unchanged.                             *)
(***************************************************************************)
RoundTrip(before, after, call, k) ==
    /\ Cardinality({i \in 1..Len(after) : after[i][1] = k}) = 1
    /\ \E i \in 1..Len(after) : after[i] = <<k, call.args[1], call.args[2], call.args[3]>>
    /\ \A i \in 1..Len(before) : \E j \in 1..Len(after) : after[j] = before[i]
    /\ Len(after) = Len(before) + 1

C2_CreateReturnsAssignedId ==
    [][Succeeded(last', "add_student") =>
          LET k == assigned'[Len(assigned')]
          IN /\ last'.ret = [kind |-> "int", val |-> k]
             /\ RoundTrip(SelectAll(rows), SelectAll(rows'), last', k)]_vars

(***************************************************************************)
(* C2 amended. add_student returns None (the id is not returned); it       *)
(* assigns id k, and right after, the records hold exactly one record with *)
(* id k, which is (k, name, grade, email), and every record present        *)
(* before, unchanged.                                                      *)
(***************************************************************************)
C2_CreateRoundTrip ==
    [][Succeeded(last', "add_student") =>
          LET k == assigned'[Len(assigned')]
          IN /\ last'.ret = None
             /\ RoundTrip(SelectAll(rows), SelectAll(rows'), last', k)]_vars

C2_Witness == Succeeded(last, "add_student") /\ Len(rows) >= 2

(***************************************************************************)
(* C3 as stated. ReadAll returns to its caller a sequence holding exactly  *)
(* the current records, each once, in ascending id order; on an empty      *)
(* schema-initialized store it returns the empty sequence and no error.    *)
(***************************************************************************)
ExactlyCurrentRecords(v) ==
    /\ Len(v) = Len(rows)
    /\ {v[i] : i \in 1..Len(v)} = Records(rows)
    /\ AscendingIds(v)

C3_ReadAllReturnsRecords ==
    /\ last.op = "view_students_db" /\ Healthy(last) => last.raised = "none"
    /\ Succeeded(last, "view_students_db") =>
          /\ last.ret.kind = "list"
          /\ ExactlyCurrentRecords(last.ret.val)

(***************************************************************************)
(* C3 amended. view_students_db prints exactly the current records, each   *)
(* once, in ascending id order, and returns None to its caller; on an      *)
(* empty schema-initialized store it prints nothing and raises no error.   *)
(***************************************************************************)
C3_ViewPrintsRecords ==
    /\ last.op = "view_students_db" /\ Healthy(last) => last.raised = "none"
    /\ Succeeded(last, "view_students_db") =>
          /\ last.ret = None
          /\ ExactlyCurrentRecords(last.out)
          /\ rows = <<>> => last.out = <<>>

C3_Witness == Succeeded(last, "view_students_db") /\ Len(last.out) >= 2

(***************************************************************************)
(* C4. Update on an existing id replaces that record's name, grade and     *)
(* email by the given values, keeps its id, and leaves every other record  *)
(* and the set of ids unchanged.                                           *)
(***************************************************************************)
C4_UpdateOverwritesAllFields ==
    [][(Succeeded(last', "update_student") /\ last'.args[1] \in IdNames(rows)) =>
          /\ Len(rows') = Len(rows)
          /\ Ids(rows') = Ids(rows)
          /\ \A i \in 1..Len(rows) :
                IF Decimal(rows[i].id) = last'.args[1]
                THEN Record(rows'[i]) =
                        <<rows[i].id, last'.args[2], last'.args[3], last'.args[4]>>
                ELSE rows'[i] = rows[i]]_vars

C4_Witness ==
    /\ Succeeded(last, "update_student")
    /\ last.rowcount = 1
    /\ \E i, j \in 1..Len(rows) :
          /\ <<Decimal(rows[i].id), rows[i].name, rows[i].grade, rows[i].email>> = last.args
          /\ rows[j].name # rows[i].name

(***************************************************************************)
(* C5. Delete on an existing id removes exactly the record with that id:   *)
(* the other records remain, unchanged and in ascending id order.          *)
(***************************************************************************)
C5_DeleteRemovesExactlyOne ==
    [][(Succeeded(last', "delete_student") /\ last'.args[1] \in IdNames(rows)) =>
          /\ last'.args[1] \notin IdNames(rows')
          /\ Records(rows') =
                Records(rows) \ {v \in Records(rows) : Decimal(v[1]) = last'.args[1]}
          /\ Len(rows') = Len(rows) - 1
          /\ AscendingIds(SelectAll(rows'))]_vars

C5_Witness ==
    /\ Succeeded(last, "delete_student")
    /\ last.rowcount = 1
    /\ \E i, j \in 1..Len(rows) :
          \E k \in (rows[i].id + 1)..(rows[j].id - 1) : Decimal(k) = last.args[1]

(***************************************************************************)
(* C6 as stated. Update and Delete with an id no current record has raise  *)
(* no error and leave the result of ReadAll as it was.                     *)
(***************************************************************************)
C6_AbsentIdIsNoOp ==
    [][(last'.op \in {"update_student", "delete_student"}
          /\ last'.args[1] \notin IdNames(rows)) =>
          /\ Healthy(last') => last'.raised = "none"
          /\ SelectAll(rows') = SelectAll(rows)]_vars

(***************************************************************************)
(* C6 amended. Update and Delete with an id no current record has leave    *)
(* the result of ReadAll as it was; they raise no error when the id is in  *)
(* the signed 64-bit range, and raise OverflowError when it is not.        *)
(***************************************************************************)
C6_AbsentIdLeavesRecords ==
    [][(last'.op \in {"update_student", "delete_student"}
          /\ last'.args[1] \notin IdNames(rows)) =>
          /\ Healthy(last') =>
                last'.raised = (IF InSigned64(last'.args[1]) THEN "none"
                                ELSE "OverflowError")
          /\ SelectAll(rows') = SelectAll(rows)]_vars

C6_Witness ==
    /\ last.op \in {"update_student", "delete_student"}
    /\ InSigned64(last.args[1])
    /\ last.args[1] \notin IdNames(rows)
    /\ last.raised = "none"
    /\ last.rowcount = 0
    /\ rows # <<>>

(***************************************************************************)
(* C7. setup_table is idempotent: whenever it is called, the table has the *)
(* shape one call gives it, and the records that existed are unchanged.    *)
(***************************************************************************)
C7_SetupTableIdempotent ==
    [][Succeeded(last', "setup_table") =>
          /\ schema' = StudentsColumns
          /\ schema # NoTable => schema' = schema
          /\ rows' = rows]_vars

C7_Witness == Succeeded(last, "setup_table") /\ rows # <<>>

(***************************************************************************)
(* C8. When a store function has returned, or has failed during execute or *)
(* commit, the connection it opened is no longer open.                     *)
(***************************************************************************)
C8_ConnectionReleased == last.op # "none" => last.conn # "open"

(***************************************************************************)
(* C9 as stated. At the id prompt of Update or Delete, text that is not a  *)
(* well-formed positive integer (non-numeric, zero, negative) is an        *)
(* invalid id: the store is not invoked, the records are unchanged and     *)
(* the loop goes on with the menu; the store is invoked with positive ids  *)
(* only.                                                                   *)
(***************************************************************************)
RejectedAsInvalid ==
    /\ pc' = "menu"
    /\ io'.msg = InvalidIdMsg
    /\ last' = NoCall
    /\ rows' = rows
    /\ schema' = schema

C9_NonPositiveIdRejected ==
    [][/\ (pc \in {"upd_id", "del_id"} /\ ~IsPositiveIntegerText(io'.lines[1]))
             => RejectedAsInvalid
       /\ last'.op \in {"update_student", "delete_student"} => IsPositiveInt(last'.args[1])]_vars

(***************************************************************************)
(* C9 amended. At the id prompt of Update or Delete, text that is not      *)
(* integer text is an invalid id: the store is not invoked, the records    *)
(* are unchanged and the loop goes on with the menu.  Integer text, zero   *)
(* and negative numbers included, is taken as the id and main() goes on    *)
(* to the next prompt of the branch.                                       *)
(***************************************************************************)
C9_NonNumericIdRejected ==
    [][(pc \in {"upd_id", "del_id"}) =>
          (IF IsIntegerText(io'.lines[1])
          THEN /\ pc' = (IF pc = "upd_id" THEN "upd_fields" ELSE "del_confirm")
               /\ io'.msg = "none"
               /\ IsZeroText(io'.lines[1]) => student_id' = Zero
               /\ IsNegativeText(io'.lines[1]) => ~IsPositiveInt(student_id')
               /\ IsPositiveIntegerText(io'.lines[1]) => IsPositiveInt(student_id')
          ELSE RejectedAsInvalid)]_vars

C9_Witness ==
    /\ io.step \in {"upd_id", "del_id"}
    /\ ~IsIntegerText(io.lines[1])
    /\ io.msg = InvalidIdMsg
    /\ pc = "menu"
    /\ rows # <<>>

(***************************************************************************)
(* C10. In the menu loop delete_student is invoked only by the step that   *)
(* read the answer y to the confirmation prompt, and with the id that      *)
(* prompt named; on any other answer the store is not invoked and the      *)
(* records are unchanged.                                                  *)
(***************************************************************************)
C10_DeleteOnlyAfterConfirm ==
    [][/\ last'.op = "delete_student" =>
             /\ pc = "del_confirm"
             /\ AnsweredYes(io'.lines[1])
             /\ last'.args = <<student_id>>
             /\ io'.asked = student_id
       /\ (pc = "del_confirm" /\ ~AnsweredYes(io'.lines[1])) =>
             /\ last' = NoCall
             /\ rows' = rows
             /\ io'.msg = "Delete canceled."
             /\ pc' = "menu"]_vars

C10_Witness ==
    /\ Succeeded(last, "delete_student")
    /\ io.step = "del_confirm"
    /\ last.rowcount = 1
    /\ rows # <<>>

====
